---- MODULE Spec2Model ----
(***************************************************************************)
(* Chunking / indexing engine of luna (index/src/chunk.rs and              *)
(* core/src/code_chunk.rs).                                                *)
(*                                                                         *)
(* Byte offsets, line numbers and token indices are 0-based as in the      *)
(* source; TLA+ sequences are 1-based, so element i of a Rust slice s is   *)
(* At(s, i) == s[i + 1].  A byte slice src[a..b] is Slice(src, a, b).      *)
(* Strings are sequences of characters; the source is a sequence of bytes  *)
(* drawn from {CH, NL} (valid UTF-8, on which from_utf8_lossy changes no   *)
(* byte).                                                                  *)
(***************************************************************************)
EXTENDS Integers, Sequences, FiniteSets, TLC

VARIABLES
    pc,           \* position of the running entry point
    src,          \* source bytes of the file
    enc,          \* what the tokenizer answers for src and for the prefix
    graph,        \* what the scope-graph provider answers for src
    opt,          \* options record of the entry point
    hits,         \* refill_chunks: the hits
    offsets,      \* index_chunks: offsets after the trailing entry is dropped
    ids,          \* index_chunks: ids trimmed to offsets.len() + 1
    max_tokens,   \* effective token budget
    min_tokens,   \* min_chunk_tokens
    scope_i,      \* index_chunks: index of the next top-level scope
    ret,          \* who called by_tokens_in_token_range
    token_range,  \* by_tokens_in_token_range: <<lo, hi>>
    start,        \* by_tokens_in_token_range: start of the current chunk
    end_limit,    \* by_tokens_in_token_range: end of the current chunk
    cursor,       \* by_tokens_in_token_range: <<last_line, last_byte>>
    chunks,       \* by_tokens_in_token_range: chunks built so far
    out,          \* the vector the entry point returns
    ctx,          \* ContextChunks: refill_chunks' result, dedup's argument
    result        \* "none", "ok" or "err"

vars == <<pc, src, enc, graph, opt, hits, offsets, ids, max_tokens, min_tokens,
          scope_i, ret, token_range, start, end_limit, cursor, chunks, out, ctx,
          result>>

locals == <<offsets, ids, max_tokens, min_tokens, scope_i, ret, token_range,
            start, end_limit, cursor, chunks>>

inputs == <<src, enc, graph, opt, hits>>

(***************************************************************************)
(* Bounds of the model.                                                    *)
(***************************************************************************)
MaxSrcLen == 3
MaxLinesLen == 4
MaxStreamLen == 5
MaxFairLen == 2
MaxRefillLen == 2
MaxHits == 2
MaxDedupLen == 3
MaxPad == 6
MaxFree == 5

(***************************************************************************)
(* Generic helpers.                                                        *)
(***************************************************************************)
NL == "\n"
CH == "a"
Byte == {CH, NL}

At(s, i) == s[i + 1]
Slice(s, a, b) == SubSeq(s, a + 1, b)
Min(a, b) == IF a < b THEN a ELSE b
Max(a, b) == IF a > b THEN a ELSE b
SatSub(a, b) == IF a > b THEN a - b ELSE 0
SetMax(S) == CHOOSE x \in S : \A y \in S : y <= x
SetMin(S) == CHOOSE x \in S : \A y \in S : x <= y
SeqsUpTo(S, n) == UNION {[1..k -> S] : k \in 0..n}
Sorted(S) == [k \in 1..Cardinality(S) |->
                 CHOOSE x \in S : Cardinality({y \in S : y < x}) = k - 1]
Contains(s, c) == \E k \in 1..Len(s) : s[k] = c
NewlinesIn(s) == Cardinality({k \in 1..Len(s) : s[k] = NL})
PATH == "mem.rs"

\* The line counted from the cursor's byte only, the cursor's line dropped.
point_without_last_line(s, byte, last_line, last_byte) ==
    [byte |-> byte, line |-> NewlinesIn(Slice(s, last_byte, byte))]

(***************************************************************************)
(* point (chunk.rs 428-440): the line of `byte`, counted from the cursor.  *)
(* A cursor behind `byte` is required by the slice last_byte..byte.        *)
(***************************************************************************)
point(s, byte, last_line, last_byte) ==
    [byte |-> byte, line |-> NewlinesIn(Slice(s, last_byte, byte)) + last_line]

(***************************************************************************)
(* by_lines_index_chunks (chunk.rs 442-480).                               *)
(***************************************************************************)
LineEnds(s) ==
    LET nls == Sorted({i \in 0..(Len(s) - 1) : At(s, i) = NL})
        bytes == <<0>> \o nls
    IN [k \in 1..Len(bytes) |-> <<k - 1, bytes[k]>>]

StepBy(s, n) ==
    LET cnt == (Len(s) + n - 1) \div n
    IN [k \in 1..cnt |-> s[(k - 1) * n + 1]]

\* The windows without the filter start_byte < end_byte.
by_lines_index_chunks_unfiltered(s, size) ==
    IF size = 0 THEN <<>>
    ELSE
      LET ends == LineEnds(s)
          last == SatSub(Len(s), 1)
          last_line == ends[Len(ends)][1]
          firsts == StepBy(ends, size)
          seconds == Tail(firsts) \o << <<last_line, last>> >>
      IN [k \in 1..Len(firsts) |->
            [path |-> PATH,
             start_byte |-> firsts[k][2],
             end_byte |-> seconds[k][2],
             start_line |-> firsts[k][1],
             end_line |-> seconds[k][1],
             text |-> Slice(s, firsts[k][2], seconds[k][2])]]

by_lines_index_chunks(s, size) ==
    IF size = 0 THEN <<>>
    ELSE
      LET ends == LineEnds(s)
          last == SatSub(Len(s), 1)
          last_line == ends[Len(ends)][1]
          firsts == StepBy(ends, size)
          seconds == Tail(firsts) \o << <<last_line, last>> >>
          pairs == [k \in 1..Len(firsts) |-> <<firsts[k], seconds[k]>>]
          kept == SelectSeq(pairs, LAMBDA p : p[1][2] < p[2][2])
      IN [k \in 1..Len(kept) |->
            [path |-> PATH,
             start_byte |-> kept[k][1][2],
             end_byte |-> kept[k][2][2],
             start_line |-> kept[k][1][1],
             end_line |-> kept[k][2][1],
             text |-> Slice(s, kept[k][1][2], kept[k][2][2])]]

(***************************************************************************)
(* OverlapStrategy::next_subdivision (code_chunk.rs 86-94).  Partial(part) *)
(* is the fraction num/den >= 0; f64::round rounds half away from zero.    *)
(***************************************************************************)
ByLinesStrategy(n) == [kind |-> "ByLines", n |-> n, num |-> 0, den |-> 1]
Partial(num, den) == [kind |-> "Partial", n |-> 0, num |-> num, den |-> den]

next_subdivision(strategy, n) ==
    Max(IF strategy.kind = "ByLines"
        THEN SatSub(n, 1)
        ELSE (2 * n * strategy.num + strategy.den) \div (2 * strategy.den),
        1)

(***************************************************************************)
(* TextRange of the scope-graph provider.  core::text_range is not among   *)
(* the sources; size() is the byte length of the range.                    *)
(***************************************************************************)
LineOfByte(s, b) == NewlinesIn(Slice(s, 0, b))
TextRange(s, a, b) ==
    [start_byte |-> a, end_byte |-> b,
     start_line |-> LineOfByte(s, a), end_line |-> LineOfByte(s, b)]
RangeSize(r) == SatSub(r.end_byte, r.start_byte)

(***************************************************************************)
(* make_index_chunk_by_bytes (chunk.rs 340-366).                           *)
(***************************************************************************)
make_index_chunk_short_text(s, start_byte, end_byte) ==
    [path |-> PATH, start_byte |-> start_byte, end_byte |-> end_byte,
     start_line |-> 0, end_line |-> 0,
     text |-> Slice(s, start_byte, SatSub(end_byte, 1))]

make_index_chunk_by_bytes(s, start_byte, end_byte) ==
    IF end_byte <= start_byte
    THEN [path |-> PATH, start_byte |-> start_byte, end_byte |-> end_byte,
          start_line |-> 0, end_line |-> 0, text |-> <<>>]
    ELSE [path |-> PATH, start_byte |-> start_byte, end_byte |-> end_byte,
          start_line |-> point(s, start_byte, 0, 0).line,
          end_line |-> point(s, end_byte, 0, 0).line,
          text |-> Slice(s, start_byte, end_byte)]

(***************************************************************************)
(* lower_bound_by and token_range_for_byte_range (chunk.rs 368-397).       *)
(* lower_bound_by is the binary search itself: left/right halving.  Its    *)
(* closure is given by its values on the slice:                            *)
(* holds[i + 1] = pred(&slice[i]).                                         *)
(***************************************************************************)
RECURSIVE lower_bound_by(_, _, _)
lower_bound_by(holds, left, right) ==
    IF left < right
    THEN LET mid == left + (right - left) \div 2
         IN IF At(holds, mid)
            THEN lower_bound_by(holds, left, mid)
            ELSE lower_bound_by(holds, mid + 1, right)
    ELSE left

NoRange == <<0, 0>>

\* The range that also takes a token starting exactly at end_byte.
token_range_touching_end(offs, start_byte, end_byte) ==
    IF end_byte <= start_byte \/ Len(offs) = 0 THEN NoRange
    ELSE
      LET s == lower_bound_by([i \in 1..Len(offs) |-> offs[i][2] > start_byte],
                              0, Len(offs))
          e == lower_bound_by([i \in 1..Len(offs) |-> offs[i][1] > end_byte],
                              0, Len(offs))
      IN IF s >= e THEN NoRange ELSE <<s, e>>

token_range_for_byte_range(offs, start_byte, end_byte) ==
    IF end_byte <= start_byte \/ Len(offs) = 0 THEN NoRange
    ELSE
      LET s == lower_bound_by([i \in 1..Len(offs) |-> offs[i][2] > start_byte],
                              0, Len(offs))
          e == lower_bound_by([i \in 1..Len(offs) |-> offs[i][1] >= end_byte],
                              0, Len(offs))
      IN IF s >= e THEN NoRange ELSE <<s, e>>

(***************************************************************************)
(* by_tokens_in_token_range (chunk.rs 228-338): the pieces of one loop     *)
(* iteration.  A token kind is "word", "cont" (its text starts with "##")  *)
(* or "unk" (id_to_token answers None).                                    *)
(***************************************************************************)
HasNewline(i) ==
    Contains(Slice(src, At(offsets, i)[1], At(offsets, i + 1)[1]), NL)

IsBoundary(i) == (i + 1 >= Len(ids)) \/ At(ids, i + 1) # "cont"

offsets_last == SatSub(token_range[2], 1)

NextLimit == Min(start + max_tokens, offsets_last)

EndLimitBoundaryFirst ==
    LET next_limit == NextLimit
        max_newline_tokens == (max_tokens * 3) \div 4
        max_boundary_tokens == (max_tokens * 7) \div 8
        newlines == {i \in (start + max_newline_tokens)..(next_limit - 1) :
                        HasNewline(i)}
        boundaries == {i \in (start + max_boundary_tokens)..(next_limit - 1) :
                          IsBoundary(i)}
    IN IF next_limit >= offsets_last THEN offsets_last
       ELSE IF boundaries # {} THEN SetMax(boundaries)
       ELSE IF newlines # {} THEN SetMax(newlines)
       ELSE next_limit

EndLimit ==
    LET next_limit == NextLimit
        max_newline_tokens == (max_tokens * 3) \div 4
        max_boundary_tokens == (max_tokens * 7) \div 8
        newlines == {i \in (start + max_newline_tokens)..(next_limit - 1) :
                        HasNewline(i)}
        boundaries == {i \in (start + max_boundary_tokens)..(next_limit - 1) :
                          IsBoundary(i)}
    IN IF next_limit >= offsets_last THEN offsets_last
       ELSE IF newlines # {} THEN SetMax(newlines)
       ELSE IF boundaries # {} THEN SetMax(boundaries)
       ELSE next_limit

\* add_token_range (chunk.rs 399-426) for the token range s .. e.
ChunkStartByte(s) == At(offsets, s)[1]
ChunkEndByte(e) == IF e < Len(offsets) THEN At(offsets, e)[1] ELSE Len(src)

add_token_range(s, e) ==
    LET start_byte == ChunkStartByte(s)
        end_byte == ChunkEndByte(e)
    IN [path |-> PATH, start_byte |-> start_byte, end_byte |-> end_byte,
        start_line |-> point(src, start_byte, cursor[1], cursor[2]).line,
        end_line |-> point(src, end_byte, cursor[1], cursor[2]).line,
        text |-> Slice(src, start_byte, end_byte)]

\* The start of the next chunk, taking the forward newline whenever there
\* is one.
NextStartForwardFirst ==
    LET diff == next_subdivision(opt.overlap, end_limit - start)
        mid == IF start + diff >= end_limit THEN SatSub(end_limit, 1)
               ELSE start + diff
        next_newlines == {i \in mid..(end_limit - 1) : HasNewline(i)}
        prev_newlines == {i \in (start + diff \div 2)..(mid - 1) : HasNewline(i)}
        boundaries == {i \in mid..(end_limit - 1) : IsBoundary(i)}
        chosen ==
            IF next_newlines # {} THEN SetMin(next_newlines)
            ELSE IF prev_newlines # {} THEN SetMax(prev_newlines) + 1
            ELSE IF boundaries # {} THEN SetMin(boundaries)
            ELSE mid
    IN IF chosen < token_range[1] THEN token_range[1] ELSE chosen

\* The start of the next chunk (chunk.rs 299-333).
NextStart ==
    LET diff == next_subdivision(opt.overlap, end_limit - start)
        mid == IF start + diff >= end_limit THEN SatSub(end_limit, 1)
               ELSE start + diff
        next_newlines == {i \in mid..(end_limit - 1) : HasNewline(i)}
        prev_newlines == {i \in (start + diff \div 2)..(mid - 1) : HasNewline(i)}
        boundaries == {i \in mid..(end_limit - 1) : IsBoundary(i)}
        n == SetMin(next_newlines)
        p == SetMax(prev_newlines) + 1
        chosen ==
            IF next_newlines # {} /\ prev_newlines = {} THEN n
            ELSE IF next_newlines = {} /\ prev_newlines # {} THEN p
            ELSE IF next_newlines # {} /\ prev_newlines # {}
                 THEN IF SatSub(n, mid) < SatSub(mid, p) THEN n ELSE p
            ELSE IF boundaries # {} THEN SetMin(boundaries)
            ELSE mid
    IN IF chosen < token_range[1] THEN token_range[1] ELSE chosen

(***************************************************************************)
(* Idle values of the variables an entry point does not use.               *)
(***************************************************************************)
NoEnc == [ok |-> FALSE, offsets |-> <<>>, ids |-> <<>>,
          prefix_ok |-> FALSE, prefix_len |-> 0]
NoGraph == [ok |-> FALSE, top |-> <<>>]

LocalsIdle ==
    /\ offsets = <<>>
    /\ ids = <<>>
    /\ max_tokens = 0
    /\ min_tokens = 0
    /\ scope_i = 0
    /\ ret = "none"
    /\ token_range = <<0, 0>>
    /\ start = 0
    /\ end_limit = 0
    /\ cursor = <<0, 0>>
    /\ chunks = <<>>

(***************************************************************************)
(* compute_line_starts and byte_range_for_lines (chunk.rs 578-601).        *)
(***************************************************************************)
compute_line_starts(s) ==
    <<0>> \o Sorted({i + 1 : i \in {j \in 0..(Len(s) - 1) : At(s, j) = NL}})
         \o <<Len(s)>>

byte_range_for_lines(line_starts, start_line0, end_line0) ==
    LET b0 == IF start_line0 < Len(line_starts)
              THEN At(line_starts, start_line0) ELSE 0
        b1 == IF end_line0 + 1 < Len(line_starts)
              THEN At(line_starts, end_line0 + 1)
              ELSE At(line_starts, Len(line_starts) - 1)
    IN <<b0, b1>>

(***************************************************************************)
(* refill_chunks (chunk.rs 487-558).  The result is Ok(vector), or Err     *)
(* (ChunkError::Parse) when the scope graph cannot be built.               *)
(***************************************************************************)
\* A reason is a sequence of string pieces, so that push_str is \o.
REASON_SCOPE == <<"refill from enclosing top-level scope">>
REASON_WINDOW == <<"refill fallback window">>

\* chunk.rs 509
EnclosesStrictly(r, hit) ==
    r.start_byte < hit.start_byte /\ r.end_byte > hit.end_byte
Encloses(r, hit) ==
    r.start_byte <= hit.start_byte /\ r.end_byte >= hit.end_byte

\* chunk.rs 507-516: the first smallest enclosing top-level scope.
RECURSIVE BestScopeLastWins(_, _, _, _)
BestScopeLastWins(top, hit, k, best) ==
    IF k > Len(top) THEN best
    ELSE LET r == top[k]
             better == best = <<>> \/ RangeSize(r) <= RangeSize(best[1])
         IN BestScopeLastWins(top, hit, k + 1,
                              IF Encloses(r, hit) /\ better THEN <<r>> ELSE best)

RECURSIVE BestScope(_, _, _, _)
BestScope(top, hit, k, best) ==
    IF k > Len(top) THEN best
    ELSE LET r == top[k]
             better == best = <<>> \/ RangeSize(r) < RangeSize(best[1])
         IN BestScope(top, hit, k + 1,
                      IF Encloses(r, hit) /\ better THEN <<r>> ELSE best)

\* chunk.rs 518-548
RefillOneNoHalving(s, top, hit, fallback_window_lines) ==
    LET line_starts == compute_line_starts(s)
        total_lines == SatSub(Len(line_starts), 1)
        best == BestScope(top, hit, 1, <<>>)
    IN IF best # <<>>
       THEN [path |-> PATH, alias |-> 0,
             snippet |-> Slice(s, best[1].start_byte, best[1].end_byte),
             start_line |-> best[1].start_line,
             end_line |-> best[1].end_line,
             reason |-> REASON_SCOPE]
       ELSE LET half == fallback_window_lines
                start0 == SatSub(hit.start_line, half)
                end0 == Min(hit.start_line + half, SatSub(total_lines, 1))
                b == byte_range_for_lines(line_starts, start0, end0)
            IN [path |-> PATH, alias |-> 0,
                snippet |-> IF b[2] > b[1] THEN Slice(s, b[1], b[2]) ELSE <<>>,
                start_line |-> start0,
                end_line |-> end0,
                reason |-> REASON_WINDOW]

RefillOne(s, top, hit, fallback_window_lines) ==
    LET line_starts == compute_line_starts(s)
        total_lines == SatSub(Len(line_starts), 1)
        best == BestScope(top, hit, 1, <<>>)
    IN IF best # <<>>
       THEN [path |-> PATH, alias |-> 0,
             snippet |-> Slice(s, best[1].start_byte, best[1].end_byte),
             start_line |-> best[1].start_line,
             end_line |-> best[1].end_line,
             reason |-> REASON_SCOPE]
       ELSE LET half == fallback_window_lines \div 2
                start0 == SatSub(hit.start_line, half)
                end0 == Min(hit.start_line + half, SatSub(total_lines, 1))
                b == byte_range_for_lines(line_starts, start0, end0)
            IN [path |-> PATH, alias |-> 0,
                snippet |-> IF b[2] > b[1] THEN Slice(s, b[1], b[2]) ELSE <<>>,
                start_line |-> start0,
                end_line |-> end0,
                reason |-> REASON_WINDOW]

\* chunk.rs 553-556 and 79-82, code_chunk.rs 179-182
NormalizeAliasAdds(v) ==
    [i \in 1..Len(v) |-> [v[i] EXCEPT !.alias = v[i].alias + (i - 1)]]
NormalizeAliasSkipped(v) == v
NormalizeAlias(v) == [i \in 1..Len(v) |-> [v[i] EXCEPT !.alias = i - 1]]

refill_chunks(s, g, hs, fallback_window_lines) ==
    IF ~g.ok THEN [ok |-> FALSE, chunks |-> <<>>]
    ELSE [ok |-> TRUE,
          chunks |-> NormalizeAlias(
              [i \in 1..Len(hs) |->
                  RefillOne(s, g.top, hs[i], fallback_window_lines)])]

(***************************************************************************)
(* chunk_source (chunk.rs 18-85) with make_chunk (560-576) and             *)
(* sliding_window_by_lines (603-633).                                      *)
(***************************************************************************)
make_chunk(s, start_line0, end_line0, start_byte, end_byte) ==
    [path |-> PATH, alias |-> 0,
     snippet |-> Slice(s, start_byte, end_byte),
     start_line |-> start_line0,
     end_line |-> Max(end_line0, start_line0)]

RECURSIVE WindowLoop(_, _, _, _, _, _, _)
WindowLoop(s, line_starts, cur, end, max_lines, step, acc) ==
    IF cur > end THEN acc
    ELSE LET window_end == Min(cur + max_lines - 1, end)
             b == byte_range_for_lines(line_starts, cur, window_end)
             acc2 == IF b[2] > b[1]
                     THEN Append(acc, make_chunk(s, cur, window_end, b[1], b[2]))
                     ELSE acc
         IN IF window_end = end THEN acc2
            ELSE WindowLoop(s, line_starts, cur + step, end, max_lines, step, acc2)

sliding_window_by_lines(s, line_starts, start_line0, end_line0, max_lines, overlap_lines) ==
    IF max_lines = 0 THEN <<>>
    ELSE WindowLoop(s, line_starts, start_line0, Max(end_line0, start_line0),
                    max_lines, Max(SatSub(max_lines, overlap_lines), 1), <<>>)

\* chunk.rs 33: sort_by_key is a stable sort on the start byte.
RECURSIVE InsertByStart(_, _)
InsertByStart(sorted, r) ==
    IF sorted = <<>> THEN <<r>>
    ELSE IF Head(sorted).start_byte <= r.start_byte
         THEN <<Head(sorted)>> \o InsertByStart(Tail(sorted), r)
         ELSE <<r>> \o sorted

RECURSIVE SortByStart(_)
SortByStart(rs) ==
    IF rs = <<>> THEN <<>>
    ELSE InsertByStart(SortByStart(SubSeq(rs, 1, Len(rs) - 1)), rs[Len(rs)])

KeepIterationOrder(rs) == rs

\* chunk.rs 42: a scope of more than max_chunk_bytes bytes is oversized.
Oversized(r, o) == RangeSize(r) > o.max_chunk_bytes

\* chunk.rs 35-62: the chunks of one top-level scope.
ScopeChunks(s, line_starts, r, o) ==
    IF r.end_byte <= r.start_byte THEN <<>>
    ELSE IF Oversized(r, o)
    THEN sliding_window_by_lines(s, line_starts, r.start_line, r.end_line,
                                 o.max_chunk_lines, o.overlap_lines)
    ELSE <<make_chunk(s, r.start_line, r.end_line, r.start_byte, r.end_byte)>>

RECURSIVE ScopePass(_, _, _, _)
ScopePass(s, line_starts, rs, o) ==
    IF rs = <<>> THEN <<>>
    ELSE ScopeChunks(s, line_starts, Head(rs), o)
             \o ScopePass(s, line_starts, Tail(rs), o)

\* chunk.rs 74: the whole-file windows are fallback_max_lines long.
FallbackWindowUsesChunkLines(o) == o.max_chunk_lines
FallbackWindowLines(o) == o.fallback_max_lines

\* chunk.rs 65-77
WholeFileWindows(s, line_starts, o) ==
    sliding_window_by_lines(s, line_starts, 0, SatSub(Len(line_starts), 1),
                            FallbackWindowLines(o), o.overlap_lines)

\* chunk.rs 33: the order in which chunk_source visits the top-level scopes.
VisitOrder(rs) == SortByStart(rs)

chunk_source_degrades(s, g, o) ==
    LET line_starts == compute_line_starts(s)
        scoped == ScopePass(s, line_starts, VisitOrder(g.top), o)
        all == IF scoped = <<>> THEN WholeFileWindows(s, line_starts, o)
               ELSE scoped
    IN [ok |-> TRUE, chunks |-> NormalizeAlias(all)]

chunk_source(s, g, o) ==
    IF ~g.ok THEN [ok |-> FALSE, chunks |-> <<>>]
    ELSE LET line_starts == compute_line_starts(s)
             scoped == ScopePass(s, line_starts, VisitOrder(g.top), o)
             all == IF scoped = <<>> THEN WholeFileWindows(s, line_starts, o)
                    ELSE scoped
         IN [ok |-> TRUE, chunks |-> NormalizeAlias(all)]

(***************************************************************************)
(* dedup_context_chunks (code_chunk.rs 155-185).  The BTreeMap holds one   *)
(* chunk per key; its values come out in key order, which is the order of  *)
(* the sort that follows.                                                  *)
(***************************************************************************)
SEPARATOR == <<"; ">>

\* The paths in the order of str::cmp.
PATHS == <<"a.rs", "b.rs", PATH>>
PathRank(p) == CHOOSE k \in 1..Len(PATHS) : PATHS[k] = p

\* code_chunk.rs 143-145
dedup_key(c) == <<c.path, c.start_line, c.end_line>>

\* code_chunk.rs 175-176: the order of (path, start_line, end_line) tuples.
KeyLess(a, b) ==
    \/ PathRank(a[1]) < PathRank(b[1])
    \/ a[1] = b[1] /\ a[2] < b[2]
    \/ a[1] = b[1] /\ a[2] = b[2] /\ a[3] < b[3]

\* code_chunk.rs 162-170
MergeReason(existing, reason) ==
    IF reason # <<>> /\ existing # reason
    THEN (IF existing # <<>> THEN existing \o SEPARATOR ELSE existing) \o reason
    ELSE existing

\* code_chunk.rs 159-172: entry(key).and_modify(..).or_insert(c)
UpsertKeepsLast(uniq, c) ==
    IF \E i \in 1..Len(uniq) : dedup_key(uniq[i]) = dedup_key(c)
    THEN [i \in 1..Len(uniq) |->
             IF dedup_key(uniq[i]) = dedup_key(c)
             THEN [c EXCEPT !.reason = MergeReason(uniq[i].reason, c.reason)]
             ELSE uniq[i]]
    ELSE Append(uniq, c)
Upsert(uniq, c) ==
    IF \E i \in 1..Len(uniq) : dedup_key(uniq[i]) = dedup_key(c)
    THEN [i \in 1..Len(uniq) |->
             IF dedup_key(uniq[i]) = dedup_key(c)
             THEN [uniq[i] EXCEPT !.reason = MergeReason(uniq[i].reason, c.reason)]
             ELSE uniq[i]]
    ELSE Append(uniq, c)

RECURSIVE UpsertAll(_, _)
UpsertAll(uniq, cs) ==
    IF cs = <<>> THEN uniq ELSE UpsertAll(Upsert(uniq, Head(cs)), Tail(cs))

\* code_chunk.rs 174-177
RECURSIVE InsertByKey(_, _)
InsertByKey(sorted, c) ==
    IF sorted = <<>> THEN <<c>>
    ELSE IF KeyLess(dedup_key(c), dedup_key(Head(sorted)))
         THEN <<c>> \o sorted
         ELSE <<Head(sorted)>> \o InsertByKey(Tail(sorted), c)

RECURSIVE SortByKey(_)
SortByKey(cs) ==
    IF cs = <<>> THEN <<>>
    ELSE InsertByKey(SortByKey(SubSeq(cs, 1, Len(cs) - 1)), cs[Len(cs)])

dedup_context_chunks(cs) == NormalizeAlias(SortByKey(UpsertAll(<<>>, cs)))

(***************************************************************************)
(* Return of by_tokens_in_token_range to its caller (chunk.rs 194-199,     *)
(* 217-219): a top-level scope of index_chunks appends the chunks (the     *)
(* line-based chunks on Err), the whole-file split returns them.           *)
(***************************************************************************)
\* A call that returns pushes at most one chunk per token of its range; the
\* vector of a call that does not return grows until allocation fails.
ChunkCap == Len(offsets) + 1

SplitReturn(who, res, chs) ==
    IF who = "scope"
    THEN /\ out' = out \o (IF res = "ok" THEN chs
                           ELSE by_lines_index_chunks(src, opt.fallback_lines))
         /\ scope_i' = scope_i + 1
         /\ pc' = "scopes"
         /\ result' = result
    ELSE IF who = "full"
    THEN /\ out' = (IF res = "ok" THEN chs
                    ELSE by_lines_index_chunks(src, opt.fallback_lines))
         /\ scope_i' = scope_i
         /\ pc' = "done"
         /\ result' = "ok"
    ELSE /\ out' = chs
         /\ scope_i' = scope_i
         /\ pc' = "done"
         /\ result' = res

\* Entry of by_tokens_in_token_range (chunk.rs 239-255).
SplitEnter(who, tr) ==
    IF Len(offsets') = 0 \/ tr[1] >= tr[2] \/ tr[2] > Len(offsets')
    THEN /\ SplitReturn(who, "ok", <<>>)
         /\ UNCHANGED <<ret, token_range, start, end_limit, cursor, chunks>>
    ELSE IF max_tokens' = 0
    THEN /\ SplitReturn(who, "err", <<>>)
         /\ UNCHANGED <<ret, token_range, start, end_limit, cursor, chunks>>
    ELSE /\ pc' = "split_loop"
         /\ ret' = who
         /\ token_range' = tr
         /\ start' = tr[1]
         /\ end_limit' = 0
         /\ cursor' = <<0, 0>>
         /\ chunks' = <<>>
         /\ UNCHANGED <<out, scope_i, result>>

\* chunk.rs 257-297: the head of an iteration, up to the tail return.
SplitEmit ==
    /\ pc = "split_loop"
    /\ UNCHANGED <<inputs, offsets, ids, max_tokens, min_tokens, ret,
                   token_range, start, ctx>>
    /\ IF start >= offsets_last
       THEN /\ SplitReturn(ret, "ok", chunks)
            /\ UNCHANGED <<end_limit, cursor, chunks>>
       ELSE
         LET el == EndLimit
             token_len == SatSub(el, start)
             allow_small == (el = offsets_last)
             emit == /\ (token_len >= min_tokens \/ allow_small)
                     /\ ChunkEndByte(el + 1) > ChunkStartByte(start)
             c == add_token_range(start, el + 1)
             chs == IF emit THEN Append(chunks, c) ELSE chunks
         IN /\ end_limit' = el
            /\ IF emit /\ cursor[2] > c.start_byte
               THEN \* point slices src[last_byte..byte]: a panic
                    /\ pc' = "panic"
                    /\ UNCHANGED <<cursor, chunks, out, scope_i, result>>
               ELSE IF emit /\ Len(chunks) >= ChunkCap
               THEN \* the vector grows without bound: allocation fails
                    /\ pc' = "oom"
                    /\ UNCHANGED <<cursor, chunks, out, scope_i, result>>
               ELSE /\ cursor' = (IF emit THEN <<c.start_line, c.start_byte>>
                                  ELSE cursor)
                    /\ chunks' = chs
                    /\ IF el = offsets_last
                       THEN SplitReturn(ret, "ok", chs)
                       ELSE /\ pc' = "split_overlap"
                            /\ UNCHANGED <<out, scope_i, result>>

\* chunk.rs 299-336: the start of the next chunk.
SplitAdvance ==
    /\ pc = "split_overlap"
    /\ start' = NextStart
    /\ UNCHANGED <<inputs, offsets, ids, max_tokens, min_tokens, ret,
                   token_range, end_limit, cursor, chunks, ctx>>
    /\ IF start' >= offsets_last
       THEN SplitReturn(ret, "ok", chunks)
       ELSE /\ pc' = "split_loop"
            /\ UNCHANGED <<out, scope_i, result>>

(***************************************************************************)
(* index_chunks (chunk.rs 98-223).                                         *)
(***************************************************************************)
DeductOffByOne == 2 - 1
DEDUCT_SPECIAL_TOKENS == 2

TopScopes == IF graph.ok THEN graph.top ELSE <<>>

\* chunk.rs 118-130: the trailing offset is dropped when its start is 0.
TrimOffsets(offsets_all) ==
    LET offsets_len == SatSub(Len(offsets_all), 1)
    IN IF offsets_len < Len(offsets_all) /\ At(offsets_all, offsets_len)[1] = 0
       THEN SubSeq(offsets_all, 1, offsets_len)
       ELSE offsets_all

TrimIds(offs, ids_all) == SubSeq(ids_all, 1, Min(Len(offs) + 1, Len(ids_all)))

\* chunk.rs 111-154
IndexStart ==
    /\ pc = "call_index_chunks"
    /\ UNCHANGED <<inputs, ret, token_range, start, end_limit, cursor, chunks,
                   ctx>>
    /\ IF \/ ~enc.ok
          \/ ~enc.prefix_ok
          \/ opt.max_chunk_tokens <= DEDUCT_SPECIAL_TOKENS + enc.prefix_len
       THEN /\ out' = by_lines_index_chunks(src, opt.fallback_lines)
            /\ result' = "ok"
            /\ pc' = "done"
            /\ UNCHANGED <<offsets, ids, max_tokens, min_tokens, scope_i>>
       ELSE /\ offsets' = TrimOffsets(enc.offsets)
            /\ ids' = TrimIds(offsets', enc.ids)
            /\ min_tokens' = opt.min_chunk_tokens
            /\ max_tokens' = opt.max_chunk_tokens - DEDUCT_SPECIAL_TOKENS
                                 - enc.prefix_len
            /\ scope_i' = 0
            /\ out' = <<>>
            /\ result' = "none"
            /\ pc' = "scopes"

\* chunk.rs 170: a scope within the budget is kept whole, whatever min_tokens.
KeepWholeFloor(token_len) == token_len <= max_tokens /\ token_len >= min_tokens
KeepWhole(token_len) == token_len <= max_tokens

\* chunk.rs 158-200: one top-level scope.
ScopeStep ==
    /\ pc = "scopes"
    /\ scope_i < Len(TopScopes)
    /\ UNCHANGED <<inputs, offsets, ids, max_tokens, min_tokens, ctx>>
    /\ LET r == At(TopScopes, scope_i)
           tr == token_range_for_byte_range(offsets, r.start_byte, r.end_byte)
           token_len == SatSub(tr[2], tr[1])
       IN IF r.end_byte <= r.start_byte \/ tr = NoRange
          THEN /\ scope_i' = scope_i + 1
               /\ UNCHANGED <<pc, out, result, ret, token_range, start,
                              end_limit, cursor, chunks>>
          ELSE IF KeepWhole(token_len)
          THEN /\ out' = Append(out, make_index_chunk_by_bytes(
                                         src, r.start_byte, r.end_byte))
               /\ scope_i' = scope_i + 1
               /\ UNCHANGED <<pc, result, ret, token_range, start, end_limit,
                              cursor, chunks>>
          ELSE SplitEnter("scope", tr)

\* chunk.rs 203-222: after the scopes.
ScopesDone ==
    /\ pc = "scopes"
    /\ scope_i >= Len(TopScopes)
    /\ UNCHANGED <<inputs, offsets, ids, max_tokens, min_tokens, ctx>>
    /\ IF out = <<>>
       THEN SplitEnter("full", <<0, Len(offsets)>>)
       ELSE /\ pc' = "done"
            /\ result' = "ok"
            /\ UNCHANGED <<out, scope_i, ret, token_range, start, end_limit,
                           cursor, chunks>>

(***************************************************************************)
(* What the collaborators may answer.  A tokenizer cuts the text into      *)
(* disjoint non-empty tokens in text order, separated by skipped bytes;    *)
(* with special tokens it adds a leading and a trailing (0, 0) entry.      *)
(* The scope-graph provider answers the direct children of the root scope  *)
(* in edge order; sibling scopes do not overlap.                           *)
(***************************************************************************)
Marks(n) ==
    {m \in [1..n -> {"gap", "begin", "in"}] :
        \A i \in 1..n : m[i] = "in" => (i > 1 /\ m[i - 1] # "gap")}

OffsetsOfMarks(m, n) ==
    LET begins == Sorted({i \in 1..n : m[i] = "begin"})
        EndOf(i) == SetMin({j \in i..n : j = n \/ m[j + 1] # "in"})
    IN [k \in 1..Len(begins) |-> <<begins[k] - 1, EndOf(begins[k])>>]

TokenStreams(n) == {OffsetsOfMarks(m, n) : m \in Marks(n)}

\* Every token a word start, or every token a "##" continuation.
KindPatterns(k) == {[i \in 1..k |-> "word"], [i \in 1..k |-> "cont"]}

WithSpecials(toks, kinds, special) ==
    IF special
    THEN [offsets |-> << <<0, 0>> >> \o toks \o << <<0, 0>> >>,
          ids |-> <<"word">> \o kinds \o <<"word">>]
    ELSE [offsets |-> toks, ids |-> kinds]

EncodingsOf(toks) ==
    {[ok |-> TRUE, offsets |-> WithSpecials(toks, kinds, sp).offsets,
      ids |-> WithSpecials(toks, kinds, sp).ids,
      prefix_ok |-> TRUE, prefix_len |-> 1] :
        kinds \in KindPatterns(Len(toks)), sp \in BOOLEAN}

Encodings(s) ==
    {[ok |-> FALSE, offsets |-> <<>>, ids |-> <<>>,
      prefix_ok |-> TRUE, prefix_len |-> 1],
     [ok |-> TRUE, offsets |-> <<>>, ids |-> <<>>,
      prefix_ok |-> FALSE, prefix_len |-> 0]}
    \cup UNION {EncodingsOf(toks) : toks \in TokenStreams(Len(s))}

\* Non-empty byte ranges, and the empty range at byte 0.
ByteRanges(n) == {r \in (0..n) \X (0..n) : r[1] < r[2]}
Disjoint(a, b) == a[2] <= b[1] \/ b[2] <= a[1]

ScopeLists(n) ==
    {<<>>, << <<0, 0>> >>} \cup {<<a>> : a \in ByteRanges(n)}
    \cup {<<r[1], r[2]>> : r \in {q \in ByteRanges(n) \X ByteRanges(n) :
                                     Disjoint(q[1], q[2])}}

Graphs(s) ==
    {NoGraph} \cup
    {[ok |-> TRUE,
      top |-> [k \in 1..Len(l) |-> TextRange(s, l[k][1], l[k][2])]] :
        l \in ScopeLists(Len(s))}

IndexOptions ==
    [min_chunk_tokens : {0, 2},
     max_chunk_tokens : 3..6,
     overlap : {Partial(1, 2)},
     fallback_lines : {1},
     fallback_window_lines : {2}]

(***************************************************************************)
(* Spec: a call of index_chunks(repo, path, src, lang_id, tokenizer, opt), *)
(* followed by refill_chunks on one of the chunks it returned.             *)
(***************************************************************************)
Init ==
    /\ pc = "call_index_chunks"
    /\ src \in SeqsUpTo(Byte, MaxSrcLen)
    /\ enc \in Encodings(src)
    /\ graph \in Graphs(src)
    /\ opt \in IndexOptions
    /\ hits = <<>>
    /\ LocalsIdle
    /\ out = <<>>
    /\ ctx = <<>>
    /\ result = "none"

\* The caller refills one of the returned chunks (agent/src/tools.rs 226).
RefillHit ==
    /\ pc = "done"
    /\ \E k \in 1..Len(out) :
          LET r == refill_chunks(src, graph, <<out[k]>>, opt.fallback_window_lines)
          IN /\ hits' = <<out[k]>>
             /\ ctx' = r.chunks
             /\ result' = (IF r.ok THEN "ok" ELSE "err")
    /\ pc' = "refilled"
    /\ UNCHANGED <<src, enc, graph, opt, locals, out>>

Next ==
    \/ IndexStart
    \/ ScopeStep
    \/ ScopesDone
    \/ SplitEmit
    \/ SplitAdvance
    \/ RefillHit

Spec == Init /\ [][Next]_vars

\* The calls on sources of at most MaxFairLen bytes with min_chunk_tokens = 2.
\* A running call keeps running: the loop is not suspended from outside.
InitFair == Init /\ Len(src) <= MaxFairLen /\ opt.min_chunk_tokens = 2

FairSpec == InitFair /\ [][Next]_vars /\ WF_vars(Next)

(***************************************************************************)
(* C1: index_chunks always returns: every call reaches its return, also    *)
(* with an effective budget max_tokens of 1 or 2.                          *)
(***************************************************************************)
IndexChunksReturns == <>(pc \in {"done", "refilled"})

(***************************************************************************)
(* The scopes index_chunks keeps whole: a non-empty byte range whose       *)
(* tokens (those that intersect the range) are at least one and at most    *)
(* max_tokens.                                                             *)
(***************************************************************************)
ReachedScopes ==
    /\ enc.ok
    /\ enc.prefix_ok
    /\ opt.max_chunk_tokens > DEDUCT_SPECIAL_TOKENS + enc.prefix_len

TokensIn(r) ==
    {i \in 0..(Len(offsets) - 1) :
        At(offsets, i)[2] > r.start_byte /\ At(offsets, i)[1] < r.end_byte}

WholeScope(r) ==
    /\ r.start_byte < r.end_byte
    /\ TokensIn(r) # {}
    /\ Cardinality(TokensIn(r)) <= max_tokens

SameExtent(c, r) == c.start_byte = r.start_byte /\ c.end_byte = r.end_byte

(***************************************************************************)
(* C4: every top-level scope with a non-empty byte range and a non-empty   *)
(* token range of at most max_tokens tokens yields exactly one IndexChunk  *)
(* with the scope's start_byte and end_byte, whatever min_chunk_tokens.    *)
(***************************************************************************)
SmallScopeKeptWhole ==
    (pc \in {"done", "refilled"} /\ ReachedScopes) =>
        \A k \in 1..Len(TopScopes) :
            WholeScope(TopScopes[k]) =>
                Cardinality({i \in 1..Len(out) :
                                SameExtent(out[i], TopScopes[k])}) = 1

SmallScopeKeptWholeWitness ==
    /\ pc = "done"
    /\ ReachedScopes
    /\ \E k \in 1..Len(TopScopes) :
          /\ WholeScope(TopScopes[k])
          /\ Cardinality(TokensIn(TopScopes[k])) < min_tokens
          /\ \E i \in 1..Len(out) : SameExtent(out[i], TopScopes[k])
    /\ Len(out) = 2

(***************************************************************************)
(* C5: if index_chunks emitted a top-level scope S whole as the chunk h,   *)
(* refill_chunks on the same source with hits = [h] returns exactly one    *)
(* ContextChunk, with reason "refill from enclosing top-level scope",      *)
(* whose snippet is the text of the byte extent of S.                      *)
(***************************************************************************)
RefillRoundTrip ==
    (pc = "refilled" /\ ReachedScopes) =>
        \A k \in 1..Len(TopScopes) :
            (WholeScope(TopScopes[k]) /\ SameExtent(hits[1], TopScopes[k])) =>
                /\ result = "ok"
                /\ Len(ctx) = 1
                /\ ctx[1].reason = REASON_SCOPE
                /\ ctx[1].snippet =
                       Slice(src, TopScopes[k].start_byte, TopScopes[k].end_byte)

RefillRoundTripWitness ==
    /\ pc = "refilled"
    /\ ReachedScopes
    /\ Len(TopScopes) = 2
    /\ \E k \in 1..Len(TopScopes) :
          /\ WholeScope(TopScopes[k])
          /\ SameExtent(hits[1], TopScopes[k])
          /\ ctx[1].snippet # <<>>

(***************************************************************************)
(* SpecSplit: a direct call of by_tokens_in_token_range.  The tokenizer    *)
(* is character-level: token i is one byte, a word start ("w") or a "##"   *)
(* continuation ("c"); "wn" and "cn" are such tokens followed by a skipped  *)
(* newline, which the token's text src[offsets[i].0..offsets[i+1].0] holds. *)
(***************************************************************************)
Streams == SeqsUpTo({"w", "c", "wn", "cn"}, MaxStreamLen)

RECURSIVE StreamSrc(_)
StreamSrc(st) ==
    IF st = <<>> THEN <<>>
    ELSE (IF Head(st) \in {"wn", "cn"} THEN <<CH, NL>> ELSE <<CH>>)
             \o StreamSrc(Tail(st))

StreamOffsets(st) ==
    [i \in 1..Len(st) |->
        LET b == (i - 1) + Cardinality({j \in 1..(i - 1) : st[j] \in {"wn", "cn"}})
        IN <<b, b + 1>>]

StreamIds(st) ==
    [i \in 1..Len(st) |-> IF st[i] \in {"c", "cn"} THEN "cont" ELSE "word"]

SplitOptions(n) ==
    [min_tokens : {0, 2},
     max_tokens : 0..3,
     overlap : {ByLinesStrategy(1), Partial(1, 2)},
     fallback_lines : {1},
     token_range : {<<0, n>>, <<1, n>>}]

InitSplit ==
    /\ pc = "call_by_tokens"
    /\ \E st \in Streams :
          /\ src = StreamSrc(st)
          /\ enc = [ok |-> TRUE, offsets |-> StreamOffsets(st),
                    ids |-> StreamIds(st), prefix_ok |-> TRUE, prefix_len |-> 0]
          /\ opt \in SplitOptions(Len(st))
    /\ graph = NoGraph
    /\ hits = <<>>
    /\ LocalsIdle
    /\ out = <<>>
    /\ ctx = <<>>
    /\ result = "none"

SplitCall ==
    /\ pc = "call_by_tokens"
    /\ offsets' = enc.offsets
    /\ ids' = enc.ids
    /\ min_tokens' = opt.min_tokens
    /\ max_tokens' = opt.max_tokens
    /\ UNCHANGED <<inputs, ctx>>
    /\ SplitEnter("direct", opt.token_range)

NextSplit == SplitCall \/ SplitEmit \/ SplitAdvance

SpecSplit == InitSplit /\ [][NextSplit]_vars

(***************************************************************************)
(* C2: with max_tokens >= 1 the value of start at the beginning of a loop  *)
(* iteration is strictly greater than at the beginning of the previous     *)
(* one.                                                                    *)
(***************************************************************************)
StartStrictlyIncreases ==
    [][(pc = "split_overlap" /\ pc' = "split_loop") => start' > start]_vars

(***************************************************************************)
(* SpecLines: a call of by_lines_index_chunks(path, src, size).            *)
(***************************************************************************)
InitLines ==
    /\ pc = "call_by_lines"
    /\ src \in SeqsUpTo(Byte, MaxLinesLen)
    /\ opt \in [fallback_lines : 0..(MaxLinesLen + 1)]
    /\ enc = NoEnc
    /\ graph = NoGraph
    /\ hits = <<>>
    /\ LocalsIdle
    /\ out = <<>>
    /\ ctx = <<>>
    /\ result = "none"

ByLines ==
    /\ pc = "call_by_lines"
    /\ out' = by_lines_index_chunks(src, opt.fallback_lines)
    /\ result' = "ok"
    /\ pc' = "done"
    /\ UNCHANGED <<inputs, locals, ctx>>

NextLines == ByLines

SpecLines == InitLines /\ [][NextLines]_vars

(***************************************************************************)
(* C3: for a non-empty source and size >= 1 the chunks of                  *)
(* by_lines_index_chunks cover every byte of [0, len(src)).                *)
(***************************************************************************)
LinesCoverAllBytes ==
    (pc = "done" /\ Len(src) > 0 /\ opt.fallback_lines >= 1) =>
        \A b \in 0..(Len(src) - 1) :
            \E k \in 1..Len(out) : out[k].start_byte <= b /\ b < out[k].end_byte

(***************************************************************************)
(* SpecCtx: the three producers of aliased chunk vectors.  A run is one    *)
(* call of chunk_source, or one call of refill_chunks on hits of a search, *)
(* or one call of dedup_context_chunks on chunks gathered from several     *)
(* files; the caller of refill_chunks passes its result on to              *)
(* dedup_context_chunks (agent/src/tools.rs 215-232), and a result of      *)
(* dedup_context_chunks may be deduplicated again.                         *)
(***************************************************************************)
ChunkOptions ==
    [max_chunk_bytes : {1, MaxSrcLen},
     max_chunk_lines : 0..2,
     overlap_lines : {0, 2},
     fallback_max_lines : {0, 1, MaxSrcLen}]

\* Hits carry a byte range of the source and the lines of its ends: a
\* non-empty range, or an empty one between two bytes; a hit of a stale index
\* lies past the end of the file.
HitRanges(n) == ByteRanges(n) \cup {<<b, b>> : b \in 1..(n - 1)}

Hits(s) ==
    {[path |-> PATH, start_byte |-> r[1], end_byte |-> r[2],
      start_line |-> LineOfByte(s, r[1]), end_line |-> LineOfByte(s, r[2])] :
        r \in HitRanges(Len(s))}
    \cup {[path |-> PATH, start_byte |-> 0, end_byte |-> 0,
           start_line |-> Len(s) + 1, end_line |-> Len(s) + 1]}

RefillOptions == [fallback_window_lines : {0, 2}]

REASON_A == <<"A">>
REASON_B == <<"B">>

DedupKeys == {<<"a.rs", 0, 2>>, <<"a.rs", 1, 1>>, <<"b.rs", 0, 0>>}

GatheredChunks ==
    {[path |-> k[1], alias |-> 0, snippet |-> sn,
      start_line |-> k[2], end_line |-> k[3], reason |-> rs] :
        k \in DedupKeys,
        sn \in {<<CH>>, <<CH, CH>>},
        rs \in {<<>>, REASON_A, REASON_B}}

\* The aliases the gathered chunks carry count down to 1.
WithStaleAliases(cs) ==
    [i \in 1..Len(cs) |-> [cs[i] EXCEPT !.alias = Len(cs) + 1 - i]]

InitChunkSource ==
    /\ pc = "call_chunk_source"
    /\ src \in SeqsUpTo(Byte, MaxSrcLen)
    /\ graph \in Graphs(src)
    /\ opt \in ChunkOptions
    /\ hits = <<>>
    /\ ctx = <<>>

InitRefill ==
    /\ pc = "call_refill_chunks"
    /\ src \in SeqsUpTo(Byte, MaxRefillLen)
    /\ graph \in Graphs(src)
    /\ opt \in RefillOptions
    /\ hits \in SeqsUpTo(Hits(src), MaxHits)
    /\ ctx = <<>>

InitDedup ==
    /\ pc = "call_dedup"
    /\ src = <<>>
    /\ graph = NoGraph
    /\ opt = [fallback_window_lines |-> 0]
    /\ hits = <<>>
    /\ \E cs \in SeqsUpTo(GatheredChunks, MaxDedupLen) : ctx = WithStaleAliases(cs)

InitCtx ==
    /\ InitChunkSource \/ InitRefill \/ InitDedup
    /\ enc = NoEnc
    /\ LocalsIdle
    /\ out = <<>>
    /\ result = "none"

ChunkSource ==
    /\ pc = "call_chunk_source"
    /\ LET r == chunk_source(src, graph, opt)
       IN /\ out' = r.chunks
          /\ result' = (IF r.ok THEN "ok" ELSE "err")
    /\ pc' = "returned_chunk_source"
    /\ UNCHANGED <<inputs, locals, ctx>>

RefillChunks ==
    /\ pc = "call_refill_chunks"
    /\ LET r == refill_chunks(src, graph, hits, opt.fallback_window_lines)
       IN /\ ctx' = r.chunks
          /\ result' = (IF r.ok THEN "ok" ELSE "err")
    /\ pc' = "returned_refill_chunks"
    /\ UNCHANGED <<inputs, locals, out>>

\* dedup_context_chunks(ctx); tools.rs 232 calls it on the Ok result of
\* refill_chunks.
Dedup ==
    /\ \/ pc = "call_dedup"
       \/ pc = "returned_refill_chunks" /\ result = "ok"
    /\ out' = dedup_context_chunks(ctx)
    /\ result' = "ok"
    /\ pc' = "returned_dedup"
    /\ UNCHANGED <<inputs, locals, ctx>>

\* dedup_context_chunks(out), the argument kept in ctx.
DedupAgain ==
    /\ pc = "returned_dedup"
    /\ ctx' = out
    /\ out' = dedup_context_chunks(out)
    /\ pc' = "returned_dedup_twice"
    /\ UNCHANGED <<inputs, locals, result>>

NextCtx == ChunkSource \/ RefillChunks \/ Dedup \/ DedupAgain

SpecCtx == InitCtx /\ [][NextCtx]_vars

(***************************************************************************)
(* What chunk_source is to return, read off the scope graph: the non-empty *)
(* top-level scopes by ascending start byte (sibling scopes do not         *)
(* overlap, so the start bytes differ), each whole or cut into windows.    *)
(***************************************************************************)
NonEmptyScopes == {k \in 1..Len(graph.top) :
                      graph.top[k].end_byte > graph.top[k].start_byte}

ScopesAscending ==
    LET starts == Sorted({graph.top[k].start_byte : k \in NonEmptyScopes})
    IN [i \in 1..Len(starts) |->
           graph.top[CHOOSE k \in NonEmptyScopes :
                         graph.top[k].start_byte = starts[i]]]

WholeScopeChunk(r) ==
    [path |-> PATH, alias |-> 0,
     snippet |-> Slice(src, r.start_byte, r.end_byte),
     start_line |-> r.start_line, end_line |-> r.end_line]

ScopeWindows(r) ==
    sliding_window_by_lines(src, compute_line_starts(src), r.start_line,
                            r.end_line, opt.max_chunk_lines, opt.overlap_lines)

ClaimedChunksOf(r) ==
    IF r.end_byte - r.start_byte <= opt.max_chunk_bytes
    THEN <<WholeScopeChunk(r)>> ELSE ScopeWindows(r)

RECURSIVE Flatten(_)
Flatten(ss) == IF ss = <<>> THEN <<>> ELSE Head(ss) \o Flatten(Tail(ss))

ClaimedScopePass ==
    Flatten([i \in 1..Len(ScopesAscending) |-> ClaimedChunksOf(ScopesAscending[i])])

ClaimedFileWindows ==
    sliding_window_by_lines(src, compute_line_starts(src), 0,
                            Len(compute_line_starts(src)) - 1,
                            opt.fallback_max_lines, opt.overlap_lines)

StripAlias(v) == [i \in 1..Len(v) |-> [v[i] EXCEPT !.alias = 0]]

ChunkSourceReturned == pc = "returned_chunk_source" /\ result = "ok"

(***************************************************************************)
(* C6: chunk_source emits, for the non-empty top-level scopes in ascending *)
(* start_byte order, one chunk with the whole scope text when the scope    *)
(* has at most max_chunk_bytes bytes and otherwise only the scope's line   *)
(* windows built with max_chunk_lines and overlap_lines; empty scope       *)
(* ranges emit nothing.                                                    *)
(***************************************************************************)
ScopesInOrderWholeOrWindowed ==
    (ChunkSourceReturned /\ ClaimedScopePass # <<>>) =>
        StripAlias(out) = ClaimedScopePass

ScopesInOrderWholeOrWindowedWitness ==
    /\ ChunkSourceReturned
    /\ Len(graph.top) = 2
    /\ graph.top[1].start_byte > graph.top[2].start_byte
    /\ \E k \in 1..2 :
          /\ graph.top[k].end_byte - graph.top[k].start_byte > opt.max_chunk_bytes
          /\ Len(ScopeWindows(graph.top[k])) >= 2
          /\ graph.top[3 - k].end_byte - graph.top[3 - k].start_byte
                 <= opt.max_chunk_bytes
    /\ Len(out) >= 3

(***************************************************************************)
(* C7: chunk_source returns the whole-file windows, built with             *)
(* fallback_max_lines and overlap_lines, exactly when the scope pass gave  *)
(* no chunk; when the scope pass gave a chunk, nothing is added to it.     *)
(***************************************************************************)
WholeFileFallbackIffNoScopeChunk ==
    ChunkSourceReturned =>
        IF ClaimedScopePass = <<>>
        THEN StripAlias(out) = ClaimedFileWindows
        ELSE Len(out) = Len(ClaimedScopePass)

WholeFileFallbackIffNoScopeChunkWitness ==
    /\ ChunkSourceReturned
    /\ NonEmptyScopes # {}
    /\ ClaimedScopePass = <<>>
    /\ opt.fallback_max_lines = 1
    /\ Len(out) >= 2

(***************************************************************************)
(* C8: after a successful call of chunk_source, refill_chunks or           *)
(* dedup_context_chunks, element i of the returned vector has alias i      *)
(* (counting from 0), whatever aliases the inputs carried.                 *)
(***************************************************************************)
AliasesDense(v) == \A i \in 1..Len(v) : v[i].alias = i - 1

AliasesAreDense ==
    /\ ChunkSourceReturned => AliasesDense(out)
    /\ (pc = "returned_refill_chunks" /\ result = "ok") => AliasesDense(ctx)
    /\ pc \in {"returned_dedup", "returned_dedup_twice"} => AliasesDense(out)

AliasesAreDenseWitness ==
    /\ pc = "returned_dedup"
    /\ Len(ctx) = 3
    /\ ~AliasesDense(ctx)
    /\ Len(out) = 2
    /\ dedup_key(ctx[1]) = dedup_key(out[2])

(***************************************************************************)
(* C9: dedup_context_chunks is idempotent: applied to its own result it    *)
(* returns that result, equal in every field.                              *)
(***************************************************************************)
DedupIdempotent == pc = "returned_dedup_twice" => out = ctx

DedupIdempotentWitness ==
    /\ pc = "returned_dedup_twice"
    /\ Len(out) >= 2
    /\ \E i \in 1..Len(out) : Len(out[i].reason) = 3
    /\ out = ctx

(***************************************************************************)
(* The merged reason of a key as documented: a later reason is appended,   *)
(* after "; ", only if it differs from the accumulated reason and does not *)
(* occur in it.                                                            *)
(***************************************************************************)
IsSubstring(r, acc) ==
    \E i \in 0..(Len(acc) - Len(r)) : SubSeq(acc, i + 1, i + Len(r)) = r

ClaimedMerge(acc, r) ==
    IF r # acc /\ ~IsSubstring(r, acc)
    THEN (IF acc # <<>> THEN acc \o SEPARATOR ELSE acc) \o r
    ELSE acc

RECURSIVE ClaimedReason(_, _)
ClaimedReason(acc, cs) ==
    IF cs = <<>> THEN acc
    ELSE ClaimedReason(ClaimedMerge(acc, Head(cs).reason), Tail(cs))

SameKeyAs(c) == SelectSeq(ctx, LAMBDA d : dedup_key(d) = dedup_key(c))

(***************************************************************************)
(* C10: the chunk dedup_context_chunks returns for a key is the first      *)
(* input chunk of that key, with the reasons of the later ones appended    *)
(* after "; " only if they differ from and do not occur in the accumulated *)
(* reason: reasons A, B, A on one key give "A; B".                         *)
(***************************************************************************)
MergedReasonSkipsContained ==
    pc = "returned_dedup" =>
        \A i \in 1..Len(out) :
            LET same == SameKeyAs(out[i])
            IN /\ out[i].snippet = same[1].snippet
               /\ out[i].reason = ClaimedReason(same[1].reason, Tail(same))

(***************************************************************************)
(* C11: the output of dedup_context_chunks has exactly one chunk per       *)
(* distinct (path, start_line, end_line) key of the input, is sorted       *)
(* strictly ascending by that key, and each output chunk carries the path, *)
(* range and snippet of the first input chunk with its key.                *)
(***************************************************************************)
KeysOf(v) == {dedup_key(v[i]) : i \in 1..Len(v)}

FirstWithKey(v, k) == v[SetMin({j \in 1..Len(v) : dedup_key(v[j]) = k})]

DedupOnePerKeySorted ==
    pc = "returned_dedup" =>
        /\ KeysOf(out) = KeysOf(ctx)
        /\ Len(out) = Cardinality(KeysOf(ctx))
        /\ \A i \in 1..(Len(out) - 1) :
              KeyLess(dedup_key(out[i]), dedup_key(out[i + 1]))
        /\ \A i \in 1..Len(out) :
              LET first == FirstWithKey(ctx, dedup_key(out[i]))
              IN /\ out[i].path = first.path
                 /\ out[i].start_line = first.start_line
                 /\ out[i].end_line = first.end_line
                 /\ out[i].snippet = first.snippet

DedupOnePerKeySortedWitness ==
    /\ pc = "returned_dedup"
    /\ Len(ctx) = 3
    /\ Len(out) = 2
    /\ dedup_key(ctx[1]) = dedup_key(ctx[3])
    /\ ctx[1].snippet # ctx[3].snippet
    /\ KeyLess(dedup_key(ctx[2]), dedup_key(ctx[1]))
    /\ out[2].snippet = ctx[1].snippet

(***************************************************************************)
(* The top-level scopes that enclose a hit, and the one refill_chunks is   *)
(* to answer with: of minimal size, the first in the order of the scope    *)
(* list among those of that size.                                          *)
(***************************************************************************)
EnclosingScopes(h) ==
    {k \in 1..Len(graph.top) :
        /\ graph.top[k].start_byte <= h.start_byte
        /\ graph.top[k].end_byte >= h.end_byte}

ScopeBytes(k) == graph.top[k].end_byte - graph.top[k].start_byte

MinimalEnclosing(h) ==
    SetMin({k \in EnclosingScopes(h) :
               \A j \in EnclosingScopes(h) : ScopeBytes(k) <= ScopeBytes(j)})

RefillReturned == pc = "returned_refill_chunks" /\ result = "ok"

TotalLines == NewlinesIn(src) + 1

LineBytes(a, b) == byte_range_for_lines(compute_line_starts(src), a, b)

(***************************************************************************)
(* C13: for a hit no top-level scope encloses, refill_chunks emits a chunk *)
(* with reason "refill fallback window", start_line = hit.start_line -     *)
(* half (saturating) and end_line = min(hit.start_line + half,             *)
(* total_lines - 1), half = fallback_window_lines / 2; if the hit's        *)
(* start_line is a line of the file, start_line <= hit.start_line <=       *)
(* end_line; an empty byte range of the window gives an empty snippet.     *)
(***************************************************************************)
RefillFallbackWindow ==
    RefillReturned =>
        \A i \in 1..Len(hits) :
            EnclosingScopes(hits[i]) = {} =>
                LET half == opt.fallback_window_lines \div 2
                    hl == hits[i].start_line
                    b == LineBytes(ctx[i].start_line, ctx[i].end_line)
                IN /\ ctx[i].reason = REASON_WINDOW
                   /\ ctx[i].start_line = (IF hl >= half THEN hl - half ELSE 0)
                   /\ ctx[i].end_line = Min(hl + half, TotalLines - 1)
                   /\ hl < TotalLines =>
                          (ctx[i].start_line <= hl /\ hl <= ctx[i].end_line)
                   /\ ctx[i].snippet =
                          (IF b[2] > b[1] THEN Slice(src, b[1], b[2]) ELSE <<>>)

RefillFallbackWindowWitness ==
    /\ RefillReturned
    /\ Len(hits) = 2
    /\ EnclosingScopes(hits[1]) = {}
    /\ EnclosingScopes(hits[2]) = {}
    /\ hits[1].start_line < TotalLines
    /\ ctx[1].start_line < hits[1].start_line
    /\ hits[1].start_line < ctx[1].end_line
    /\ hits[2].start_line >= TotalLines
    /\ ctx[2].snippet = <<>>

(***************************************************************************)
(* C14: index_chunks reports no error; when tokenizing the source fails,   *)
(* tokenizing the prefix fails, or max_chunk_tokens <= 2 + prefix_len, its *)
(* result is exactly by_lines_index_chunks(path, src, fallback_lines).     *)
(***************************************************************************)
Degraded ==
    \/ ~enc.ok
    \/ ~enc.prefix_ok
    \/ opt.max_chunk_tokens <= 2 + enc.prefix_len

IndexDegradesToLines ==
    pc = "done" =>
        /\ result = "ok"
        /\ Degraded => out = by_lines_index_chunks(src, opt.fallback_lines)

IndexDegradesToLinesWitness ==
    /\ pc = "done"
    /\ enc.ok
    /\ enc.prefix_ok
    /\ Len(enc.offsets) >= 2
    /\ opt.max_chunk_tokens = 2 + enc.prefix_len
    /\ Len(TopScopes) = 2
    /\ Len(out) >= 2
    /\ out = by_lines_index_chunks(src, opt.fallback_lines)

(***************************************************************************)
(* SpecParse: the calls of index_chunks, chunk_source and refill_chunks on *)
(* a file whose scope graph cannot be built; the chunks index_chunks       *)
(* returns are then refilled from the same file.                           *)
(***************************************************************************)
InitParse ==
    /\ \/ Init
       \/ InitCtx /\ pc \in {"call_chunk_source", "call_refill_chunks"}
    /\ ~graph.ok

NextParse ==
    \/ IndexStart
    \/ ScopesDone
    \/ SplitEmit
    \/ SplitAdvance
    \/ RefillHit
    \/ ChunkSource
    \/ RefillChunks

SpecParse == InitParse /\ [][NextParse]_vars

(***************************************************************************)
(* C15: when the scope graph cannot be built, chunk_source and             *)
(* refill_chunks return the error with no chunk, whereas index_chunks      *)
(* returns what it returns for a file without top-level scopes: the        *)
(* budgeted token split of the whole token range 0 .. offsets.len().       *)
(***************************************************************************)
ParseFailureFatalOrDegraded ==
    ~graph.ok =>
        /\ pc = "returned_chunk_source" => (result = "err" /\ out = <<>>)
        /\ pc \in {"returned_refill_chunks", "refilled"} =>
               (result = "err" /\ ctx = <<>>)
        /\ (pc = "done" /\ ~Degraded) =>
               /\ result = "ok"
               /\ scope_i = 0
               /\ IF Len(offsets) = 0 THEN out = <<>>
                  ELSE /\ ret = "full"
                       /\ token_range = <<0, Len(offsets)>>
                       /\ out = chunks

ParseFailureFatalOrDegradedWitness ==
    /\ pc = "refilled"
    /\ ~graph.ok
    /\ ~Degraded
    /\ ret = "full"
    /\ Len(out) >= 2
    /\ result = "err"
    /\ ctx = <<>>

(***************************************************************************)
(* C16: every IndexChunk index_chunks returns, on each of its paths, has   *)
(* start_byte <= end_byte <= len(src) and text = src[start_byte..end_byte].*)
(***************************************************************************)
WellFormedChunk(c) ==
    /\ c.start_byte <= c.end_byte
    /\ c.end_byte <= Len(src)
    /\ c.text = SubSeq(src, c.start_byte + 1, c.end_byte)

IndexChunksWellFormed ==
    pc = "done" => \A i \in 1..Len(out) : WellFormedChunk(out[i])

IndexChunksWellFormedWitness ==
    /\ pc = "done"
    /\ ~Degraded
    /\ Len(TopScopes) = 2
    /\ \E k \in 1..2 : WholeScope(TopScopes[k])
    /\ chunks # <<>>
    /\ Len(out) >= 2

(***************************************************************************)
(* The tokens of a chunk: those whose offsets lie inside its byte range.   *)
(***************************************************************************)
TokensInside(c) ==
    {i \in 0..(Len(offsets) - 1) :
        /\ c.start_byte <= At(offsets, i)[1]
        /\ At(offsets, i)[2] <= c.end_byte}

SplitReturnedOk ==
    /\ pc = "done"
    /\ result = "ok"
    /\ ret = "direct"

(***************************************************************************)
(* C17: every chunk by_tokens_in_token_range emits holds at most           *)
(* max_tokens tokens.                                                      *)
(***************************************************************************)
ChunksWithinBudget ==
    SplitReturnedOk =>
        \A k \in 1..Len(out) : Cardinality(TokensInside(out[k])) <= max_tokens

Covers(c, i) ==
    /\ c.start_byte <= At(offsets, i)[1]
    /\ At(offsets, i)[2] <= c.end_byte

(***************************************************************************)
(* C18: for a non-empty token range [lo, hi), also of one token, and       *)
(* max_tokens >= 1, a call of by_tokens_in_token_range that returns Ok has *)
(* emitted a tail chunk whose last covered token is hi - 1, whatever       *)
(* min_tokens.                                                             *)
(***************************************************************************)
TailChunkEmitted ==
    (SplitReturnedOk /\ opt.token_range[1] < opt.token_range[2]
                     /\ opt.max_tokens >= 1) =>
        /\ out # <<>>
        /\ Covers(out[Len(out)], opt.token_range[2] - 1)
        /\ \A i \in opt.token_range[2]..(Len(offsets) - 1) :
              ~Covers(out[Len(out)], i)

(***************************************************************************)
(* C19: a call of by_tokens_in_token_range that returns Ok has covered     *)
(* every token of [lo, hi) by an emitted chunk, and each emitted chunk     *)
(* after the first starts no later than the previous one ended.            *)
(***************************************************************************)
RangeFullyCovered ==
    SplitReturnedOk =>
        /\ \A i \in opt.token_range[1]..(opt.token_range[2] - 1) :
              \E k \in 1..Len(out) : Covers(out[k], i)
        /\ \A k \in 2..Len(out) : out[k].start_byte <= out[k - 1].end_byte

(***************************************************************************)
(* SpecWide: by_tokens_in_token_range on long token streams with budgets   *)
(* whose newline window and boundary window differ.  The stream is a run   *)
(* of plain continuation tokens followed by free tokens.                   *)
(***************************************************************************)
WideStreams ==
    {[i \in 1..pad |-> "c"] \o free :
        pad \in 0..MaxPad, free \in SeqsUpTo({"w", "c", "wn", "cn"}, MaxFree)}

WideOptions(n) ==
    [min_tokens : {0},
     max_tokens : {4, 5, 8, 9},
     overlap : {Partial(1, 2)},
     fallback_lines : {1},
     token_range : {<<0, n>>}]

InitWide ==
    /\ pc = "call_by_tokens"
    /\ \E st \in WideStreams :
          /\ src = StreamSrc(st)
          /\ enc = [ok |-> TRUE, offsets |-> StreamOffsets(st),
                    ids |-> StreamIds(st), prefix_ok |-> TRUE, prefix_len |-> 0]
          /\ opt \in WideOptions(Len(st))
    /\ graph = NoGraph
    /\ hits = <<>>
    /\ LocalsIdle
    /\ out = <<>>
    /\ ctx = <<>>
    /\ result = "none"

SpecWide == InitWide /\ [][NextSplit]_vars

(***************************************************************************)
(* The split windows of an iteration that starts at `start`, read off the  *)
(* token stream: the tokens whose text (up to the start of the next token) *)
(* holds a newline, and the tokens followed by a token that is not a "##"  *)
(* continuation or has no id.                                              *)
(***************************************************************************)
TokenText(i) == SubSeq(src, offsets[i + 1][1] + 1, offsets[i + 2][1])

NewlineWindow ==
    {i \in (start + (max_tokens * 3) \div 4)..(start + max_tokens - 1) :
        \E k \in 1..Len(TokenText(i)) : TokenText(i)[k] = NL}

BoundaryWindow ==
    {i \in (start + (max_tokens * 7) \div 8)..(start + max_tokens - 1) :
        i + 2 > Len(ids) \/ ids[i + 2] # "cont"}

BeforeLastIndex == start + max_tokens < token_range[2] - 1

(***************************************************************************)
(* C20: when next_limit = start + max_tokens is before the last index,     *)
(* end_limit is the largest index of the newline window whose token text   *)
(* holds a newline; if there is none, the largest index of the boundary    *)
(* window whose next token is not a continuation; if there is none,        *)
(* next_limit.                                                             *)
(***************************************************************************)
SplitPointPreference ==
    (pc = "split_overlap" /\ BeforeLastIndex) =>
        end_limit = (IF NewlineWindow # {} THEN SetMax(NewlineWindow)
                     ELSE IF BoundaryWindow # {} THEN SetMax(BoundaryWindow)
                     ELSE start + max_tokens)

SplitPointPreferenceWitness ==
    /\ pc = "split_overlap"
    /\ BeforeLastIndex
    /\ start > 0
    /\ NewlineWindow # {}
    /\ BoundaryWindow # {}
    /\ SetMax(BoundaryWindow) > SetMax(NewlineWindow)
    /\ end_limit = SetMax(NewlineWindow)

(***************************************************************************)
(* SpecOverlap: by_tokens_in_token_range on free token streams long enough *)
(* for a non-final chunk of four or five tokens, so that the overlap       *)
(* search has a backward and a forward part of more than one index.        *)
(***************************************************************************)
MaxOverlapLen == 7

OverlapStreams == SeqsUpTo({"w", "c", "wn"}, MaxOverlapLen)

OverlapOptions(n) ==
    [min_tokens : {0},
     max_tokens : {1, 4, 5},
     overlap : {ByLinesStrategy(1), Partial(1, 2)},
     fallback_lines : {1},
     token_range : {<<0, n>>, <<1, n>>}]

InitOverlap ==
    /\ pc = "call_by_tokens"
    /\ \E st \in OverlapStreams :
          /\ src = StreamSrc(st)
          /\ enc = [ok |-> TRUE, offsets |-> StreamOffsets(st),
                    ids |-> StreamIds(st), prefix_ok |-> TRUE, prefix_len |-> 0]
          /\ opt \in OverlapOptions(Len(st))
    /\ graph = NoGraph
    /\ hits = <<>>
    /\ LocalsIdle
    /\ out = <<>>
    /\ ctx = <<>>
    /\ result = "none"

SpecOverlap == InitOverlap /\ [][NextSplit]_vars

(***************************************************************************)
(* The overlap search of a non-final chunk [start, end_limit], read off    *)
(* the token stream.                                                       *)
(***************************************************************************)
TokenHasNewline(i) ==
    /\ i >= 0
    /\ \E k \in 1..Len(TokenText(i)) : TokenText(i)[k] = NL

NextNotContinuation(i) ==
    i >= 0 /\ (i + 2 > Len(ids) \/ ids[i + 2] # "cont")

OverlapDiff == next_subdivision(opt.overlap, end_limit - start)
OverlapMid == Min(start + OverlapDiff, end_limit - 1)

ForwardNewlines == {i \in OverlapMid..(end_limit - 1) : TokenHasNewline(i)}
BackwardNewlines ==
    {i \in (start + OverlapDiff \div 2)..(OverlapMid - 1) : TokenHasNewline(i)}
ForwardBoundaries ==
    {i \in OverlapMid..(end_limit - 1) : NextNotContinuation(i)}

Distance(a, b) == IF a >= b THEN a - b ELSE b - a

OverlapCandidates ==
    LET n == SetMin(ForwardNewlines)
        p == SetMax(BackwardNewlines) + 1
    IN IF ForwardNewlines # {} /\ BackwardNewlines = {} THEN {n}
       ELSE IF ForwardNewlines = {} /\ BackwardNewlines # {} THEN {p}
       ELSE IF ForwardNewlines # {} /\ BackwardNewlines # {}
            THEN {x \in {n, p} :
                    \A y \in {n, p} :
                        Distance(x, OverlapMid) <= Distance(y, OverlapMid)}
       ELSE IF ForwardBoundaries # {} THEN {SetMin(ForwardBoundaries)}
       ELSE {OverlapMid}

(***************************************************************************)
(* C21: after a non-final chunk [start, end_limit], with diff =            *)
(* next_subdivision(end_limit - start) and mid = min(start + diff,         *)
(* end_limit - 1), the new start is the first newline token n of           *)
(* [mid, end_limit) if only n exists, one past the last newline token of   *)
(* [start + diff/2, mid) if only that p exists, the one of the two closer  *)
(* to mid if both exist, otherwise the first index of [mid, end_limit)     *)
(* whose next token is not a continuation, otherwise mid; the value is     *)
(* raised to the start of the token range and lies in [lo, hi - 1).        *)
(***************************************************************************)
NextStartAsSearched ==
    [][pc = "split_overlap" =>
         /\ \E c \in OverlapCandidates : start' = Max(c, token_range[1])
         /\ start' >= token_range[1]
         /\ start' < token_range[2] - 1]_vars

NextStartAsSearchedWitness ==
    /\ pc = "split_loop"
    /\ chunks # <<>>
    /\ start > token_range[1]
    /\ start < end_limit
    /\ TokenHasNewline(start - 1)
    /\ ~TokenHasNewline(start)
    /\ \E i \in (start + 1)..(end_limit - 1) : TokenHasNewline(i)

(***************************************************************************)
(* C22: index_chunks never sees the split of a top-level scope fail: the   *)
(* only Err of by_tokens_in_token_range is max_tokens = 0 (chunk.rs        *)
(* 245-247) and the scope loop runs with max_tokens >= 1 (chunk.rs         *)
(* 142-145).                                                               *)
(***************************************************************************)
ScopeSplitNeverFails ==
    pc \in {"scopes", "split_loop", "split_overlap"} => max_tokens >= 1

(***************************************************************************)
(* SpecRange: a call of token_range_for_byte_range(offsets, start_byte,    *)
(* end_byte) on the offsets of a tokenizer, with or without the leading    *)
(* (0, 0) entry of a special token.  The arguments are kept in offsets and *)
(* cursor, the answer in token_range; result tells None from Some.         *)
(***************************************************************************)
MaxRangeLen == 4

RangeOffsets ==
    UNION {{toks, << <<0, 0>> >> \o toks} :
              toks \in UNION {TokenStreams(n) : n \in 0..MaxRangeLen}}

InitRange ==
    /\ pc = "call_token_range"
    /\ offsets \in RangeOffsets
    /\ cursor \in (0..MaxRangeLen) \X (0..(MaxRangeLen + 1))
    /\ src = <<>>
    /\ enc = NoEnc
    /\ graph = NoGraph
    /\ opt = [fallback_lines |-> 1]
    /\ hits = <<>>
    /\ ids = <<>>
    /\ max_tokens = 0
    /\ min_tokens = 0
    /\ scope_i = 0
    /\ ret = "none"
    /\ token_range = NoRange
    /\ start = 0
    /\ end_limit = 0
    /\ chunks = <<>>
    /\ out = <<>>
    /\ ctx = <<>>
    /\ result = "none"

TokenRangeCall ==
    /\ pc = "call_token_range"
    /\ token_range' = token_range_for_byte_range(offsets, cursor[1], cursor[2])
    /\ result' = (IF token_range' = NoRange THEN "none" ELSE "some")
    /\ pc' = "returned_token_range"
    /\ UNCHANGED <<inputs, offsets, ids, max_tokens, min_tokens, scope_i, ret,
                   start, end_limit, cursor, chunks, out, ctx>>

NextRange == TokenRangeCall

SpecRange == InitRange /\ [][NextRange]_vars

\* The least index of offsets that satisfies the test, or their number.
LeastEndAfter(b) ==
    SetMin({i \in 0..(Len(offsets) - 1) : offsets[i + 1][2] > b}
               \cup {Len(offsets)})
LeastStartFrom(b) ==
    SetMin({i \in 0..(Len(offsets) - 1) : offsets[i + 1][1] >= b}
               \cup {Len(offsets)})

\* Token i shares a byte with [a, b).
Intersects(i, a, b) ==
    \E byte \in a..(b - 1) :
        offsets[i + 1][1] <= byte /\ byte < offsets[i + 1][2]

\* k splits the values into a run of FALSE followed by a run of TRUE.
IsPartitionPoint(holds, k) ==
    /\ k \in 0..Len(holds)
    /\ \A i \in 1..Len(holds) : holds[i] <=> i > k

(***************************************************************************)
(* C23: for start_byte < end_byte, token_range_for_byte_range answers      *)
(* Some(a..b) with a the least index whose end offset exceeds start_byte   *)
(* and b the least index whose start offset is >= end_byte (the number of  *)
(* offsets if none), and None exactly when a >= b or there is no offset;   *)
(* the range holds exactly the tokens that intersect [start_byte,          *)
(* end_byte), and each lower_bound_by ends at the partition point of its   *)
(* test.                                                                   *)
(***************************************************************************)
TokenRangeIsIntersection ==
    (pc = "returned_token_range" /\ cursor[1] < cursor[2]) =>
        LET a == LeastEndAfter(cursor[1])
            b == LeastStartFrom(cursor[2])
            ends == [i \in 1..Len(offsets) |-> offsets[i][2] > cursor[1]]
            starts == [i \in 1..Len(offsets) |-> offsets[i][1] >= cursor[2]]
        IN /\ result = "none" <=> (a >= b \/ offsets = <<>>)
           /\ result = "some" =>
                 /\ token_range = <<a, b>>
                 /\ \A i \in 0..(Len(offsets) - 1) :
                       (a <= i /\ i < b) <=> Intersects(i, cursor[1], cursor[2])
           /\ IsPartitionPoint(ends, lower_bound_by(ends, 0, Len(ends)))
           /\ IsPartitionPoint(starts, lower_bound_by(starts, 0, Len(starts)))

TokenRangeIsIntersectionWitness ==
    /\ pc = "returned_token_range"
    /\ cursor[1] < cursor[2]
    /\ result = "some"
    /\ token_range[1] > 0
    /\ token_range[2] < Len(offsets)
    /\ token_range[2] - token_range[1] >= 2
    /\ offsets[token_range[2] + 1][1] = cursor[2]

(***************************************************************************)
(* C24: index_chunks drops the last token offset if and only if it is      *)
(* (0, 0); a last offset with a non-empty span is kept.                    *)
(***************************************************************************)
TrailingOffsetDroppedIffSentinel ==
    pc = "scopes" =>
        offsets = (IF enc.offsets # <<>>
                      /\ enc.offsets[Len(enc.offsets)] = <<0, 0>>
                   THEN SubSeq(enc.offsets, 1, Len(enc.offsets) - 1)
                   ELSE enc.offsets)

(***************************************************************************)
(* find_root_scope_idx and top_level_scopes (chunk.rs 635-687) on a scope  *)
(* graph: nodes in node-index order, each a Scope with the byte size of    *)
(* its range or a node of another kind, and directed edges, each           *)
(* ScopeToScope (from a scope to its parent) or of another kind.           *)
(***************************************************************************)
HasParent(g, idx) ==
    \E k \in 1..Len(g.edges) :
        g.edges[k].source = idx /\ g.edges[k].kind = "ScopeToScope"

NoBest == [some |-> FALSE, idx |-> 0, size |-> 0]

\* The comparison with >= for >: the last of the largest wins.
BetterOrEqual(size, best) == ~best.some \/ size >= best.size

\* chunk.rs 657-661: the first node, then any strictly larger one.
Better(size, best) == ~best.some \/ size > best.size

RECURSIVE FindRootFrom(_, _, _)
FindRootFrom(g, idx, best) ==
    IF idx >= Len(g.nodes) THEN best
    ELSE IF At(g.nodes, idx).kind # "Scope" \/ HasParent(g, idx)
    THEN FindRootFrom(g, idx + 1, best)
    ELSE LET size == At(g.nodes, idx).size
         IN FindRootFrom(g, idx + 1,
                IF Better(size, best)
                THEN [some |-> TRUE, idx |-> idx, size |-> size]
                ELSE best)

find_root_scope_idx(g) == FindRootFrom(g, 0, NoBest)

\* The incoming edges of root_idx, the most recently added first.
top_level_scopes(g, root_idx) ==
    LET IsChildEdge(e) ==
            /\ e.target = root_idx
            /\ e.kind = "ScopeToScope"
            /\ At(g.nodes, e.source).kind = "Scope"
        incoming == SelectSeq([k \in 1..Len(g.edges) |->
                                   g.edges[Len(g.edges) + 1 - k]], IsChildEdge)
    IN [k \in 1..Len(incoming) |->
           [idx |-> incoming[k].source,
            size |-> At(g.nodes, incoming[k].source).size]]

(***************************************************************************)
(* SpecGraph: find_root_scope_idx on a graph, then top_level_scopes on the *)
(* root it found.  The edges of a graph are drawn in one order of          *)
(* addition.                                                               *)
(***************************************************************************)
MaxGraphNodes == 3
MaxGraphEdges == 2

GraphNodeKinds ==
    {[kind |-> "Scope", size |-> 1], [kind |-> "Scope", size |-> 2],
     [kind |-> "Other", size |-> 0]}

GraphEdges(n) ==
    {[source |-> s, target |-> t, kind |-> k] :
        s \in 0..(n - 1), t \in 0..(n - 1), k \in {"ScopeToScope", "Other"}}

EdgeCode(e, n) ==
    2 * (e.source * n + e.target) + (IF e.kind = "Other" THEN 1 ELSE 0)

\* An edge list: edges between distinct nodes, in one order of addition.
IsEdgeList(l, n) ==
    /\ \A i \in 1..Len(l) : l[i].source # l[i].target
    /\ \A i \in 1..(Len(l) - 1) : EdgeCode(l[i], n) < EdgeCode(l[i + 1], n)

InitGraph ==
    /\ pc = "call_find_root"
    /\ \E ns \in SeqsUpTo(GraphNodeKinds, MaxGraphNodes) :
       \E k \in 0..MaxGraphEdges :
       \E l \in [1..k -> GraphEdges(Len(ns))] :
          /\ IsEdgeList(l, Len(ns))
          /\ graph = [nodes |-> ns, edges |-> l]
    /\ src = <<>>
    /\ enc = NoEnc
    /\ opt = [fallback_lines |-> 1]
    /\ hits = <<>>
    /\ LocalsIdle
    /\ out = <<>>
    /\ ctx = <<>>
    /\ result = "none"

\* chunk.rs 151: find_root_scope_idx(&graph)
FindRoot ==
    /\ pc = "call_find_root"
    /\ LET best == find_root_scope_idx(graph)
       IN /\ result' = (IF best.some THEN "some" ELSE "none")
          /\ scope_i' = best.idx
    /\ pc' = "returned_find_root"
    /\ UNCHANGED <<inputs, offsets, ids, max_tokens, min_tokens, ret,
                   token_range, start, end_limit, cursor, chunks, out, ctx>>

\* chunk.rs 151: .map(|root| top_level_scopes(&graph, root))
TopLevel ==
    /\ pc = "returned_find_root"
    /\ result = "some"
    /\ out' = top_level_scopes(graph, scope_i)
    /\ pc' = "returned_top_level"
    /\ UNCHANGED <<inputs, locals, ctx, result>>

NextGraph == FindRoot \/ TopLevel

SpecGraph == InitGraph /\ [][NextGraph]_vars

\* The Scope nodes without an outgoing scope-to-scope edge.
ParentlessScopes ==
    {i \in 0..(Len(graph.nodes) - 1) :
        /\ graph.nodes[i + 1].kind = "Scope"
        /\ ~\E k \in 1..Len(graph.edges) :
               graph.edges[k].source = i /\ graph.edges[k].kind = "ScopeToScope"}

\* The Scope nodes with a scope-to-scope edge into node r.
ScopeChildren(r) ==
    {i \in 0..(Len(graph.nodes) - 1) :
        /\ graph.nodes[i + 1].kind = "Scope"
        /\ \E k \in 1..Len(graph.edges) :
              /\ graph.edges[k].source = i
              /\ graph.edges[k].target = r
              /\ graph.edges[k].kind = "ScopeToScope"}

(***************************************************************************)
(* C25: find_root_scope_idx answers None exactly when no Scope node is     *)
(* without an outgoing scope-to-scope edge; otherwise a parentless Scope   *)
(* node of maximal byte size among the parentless ones, the first in       *)
(* node-index order on ties.  top_level_scopes(root) then answers exactly  *)
(* the Scope nodes with a scope-to-scope edge directly into root, never a  *)
(* grandchild.                                                             *)
(***************************************************************************)
RootIsLargestParentless ==
    /\ pc \in {"returned_find_root", "returned_top_level"} =>
          /\ result = "none" <=> ParentlessScopes = {}
          /\ result = "some" =>
                /\ scope_i \in ParentlessScopes
                /\ \A j \in ParentlessScopes :
                      \/ graph.nodes[j + 1].size < graph.nodes[scope_i + 1].size
                      \/ /\ graph.nodes[j + 1].size
                                = graph.nodes[scope_i + 1].size
                         /\ scope_i <= j
    /\ pc = "returned_top_level" =>
          /\ {out[k].idx : k \in 1..Len(out)} = ScopeChildren(scope_i)
          /\ \A k \in 1..Len(out) :
                out[k].size = graph.nodes[out[k].idx + 1].size

RootIsLargestParentlessWitness ==
    /\ pc = "returned_top_level"
    /\ scope_i = 1
    /\ Cardinality(ParentlessScopes) = 1
    /\ graph.nodes[1].kind = "Scope"
    /\ graph.nodes[1].size > graph.nodes[2].size
    /\ ScopeChildren(scope_i) = {2}
    /\ ScopeChildren(2) = {0}
    /\ Len(out) = 1

(***************************************************************************)
(* SpecWindow: sliding_window_by_lines (chunk.rs 603-633) one loop         *)
(* iteration at a time, over usize of UsizeBits bits.  cur + max_lines - 1 *)
(* is evaluated left to right: when cur + max_lines exceeds usize::MAX a   *)
(* build with overflow checks panics and a build without them wraps.  The  *)
(* build is kept in ret, cur in start, end in end_limit, step in scope_i,  *)
(* the windows visited so far in chunks and the CodeChunks pushed in out.  *)
(***************************************************************************)
UsizeBits == 3
UsizeMax == 2 ^ UsizeBits - 1

MaxWindowSrc == 3

WindowArgs(s) ==
    [start_line0 : 0..(Len(compute_line_starts(s)) - 1),
     end_line0 : 0..(Len(compute_line_starts(s)) - 1),
     max_lines : {0, 1, 2, 3, UsizeMax},
     overlap_lines : {0, 1, 3, UsizeMax}]

InitWindow ==
    /\ pc = "call_sliding_window"
    /\ src \in SeqsUpTo(Byte, MaxWindowSrc)
    /\ opt \in WindowArgs(src)
    /\ ret \in {"overflow-checks", "wrapping"}
    /\ enc = NoEnc
    /\ graph = NoGraph
    /\ hits = <<>>
    /\ offsets = <<>>
    /\ ids = <<>>
    /\ max_tokens = 0
    /\ min_tokens = 0
    /\ scope_i = 0
    /\ token_range = NoRange
    /\ start = 0
    /\ end_limit = 0
    /\ cursor = <<0, 0>>
    /\ chunks = <<>>
    /\ out = <<>>
    /\ ctx = <<>>
    /\ result = "none"

\* chunk.rs 612-619
WindowCall ==
    /\ pc = "call_sliding_window"
    /\ IF opt.max_lines = 0
       THEN /\ pc' = "returned_sliding_window"
            /\ UNCHANGED <<start, end_limit, scope_i>>
       ELSE /\ pc' = "window_loop"
            /\ start' = opt.start_line0
            /\ end_limit' = Max(opt.end_line0, opt.start_line0)
            /\ scope_i' = Max(SatSub(opt.max_lines, opt.overlap_lines), 1)
    /\ UNCHANGED <<inputs, offsets, ids, max_tokens, min_tokens, ret,
                   token_range, cursor, chunks, out, ctx, result>>

\* chunk.rs 621-631: one iteration of the while loop.
WindowStep ==
    /\ pc = "window_loop"
    /\ UNCHANGED <<inputs, offsets, ids, max_tokens, min_tokens, ret,
                   token_range, end_limit, scope_i, cursor, ctx, result>>
    /\ IF start > end_limit
       THEN /\ pc' = "returned_sliding_window"
            /\ UNCHANGED <<start, chunks, out>>
       ELSE IF start + opt.max_lines > UsizeMax /\ ret = "overflow-checks"
       THEN /\ pc' = "panic"
            /\ UNCHANGED <<start, chunks, out>>
       ELSE LET line_starts == compute_line_starts(src)
                window_end == Min((start + opt.max_lines - 1) % (UsizeMax + 1),
                                  end_limit)
                b == byte_range_for_lines(line_starts, start, window_end)
            IN /\ chunks' = Append(chunks, <<start, window_end>>)
               /\ out' = (IF b[2] > b[1]
                          THEN Append(out, make_chunk(src, start, window_end,
                                                       b[1], b[2]))
                          ELSE out)
               /\ IF window_end = end_limit
                  THEN /\ pc' = "returned_sliding_window"
                       /\ start' = start
                  ELSE /\ pc' = "window_loop"
                       /\ start' = Min(start + scope_i, UsizeMax)

NextWindow == WindowCall \/ WindowStep

SpecWindow == InitWindow /\ [][NextWindow]_vars

(***************************************************************************)
(* C26: for max_lines >= 1 and any overlap_lines, sliding_window_by_lines  *)
(* returns after visiting windows [cur, min(cur + max_lines - 1, end)]     *)
(* that start at start_line, advance by step = max(max_lines -             *)
(* overlap_lines, 1), span at most max_lines lines each and end with a     *)
(* window whose last line is end, so every line of [start_line, end] lies  *)
(* in a window; max_lines = 0 gives no chunk.                              *)
(***************************************************************************)
WindowsCoverTheLines ==
    LET end == Max(opt.end_line0, opt.start_line0)
        step == Max(opt.max_lines - opt.overlap_lines, 1)
    IN /\ pc # "panic"
       /\ (pc = "returned_sliding_window" /\ opt.max_lines = 0) => out = <<>>
       /\ (pc = "returned_sliding_window" /\ opt.max_lines >= 1) =>
             /\ chunks # <<>>
             /\ chunks[1][1] = opt.start_line0
             /\ \A k \in 1..Len(chunks) :
                   /\ chunks[k][2] = Min(chunks[k][1] + opt.max_lines - 1, end)
                   /\ chunks[k][2] - chunks[k][1] + 1 <= opt.max_lines
                   /\ k > 1 => chunks[k][1] = chunks[k - 1][1] + step
             /\ chunks[Len(chunks)][2] = end
             /\ \A line \in opt.start_line0..end :
                   \E k \in 1..Len(chunks) :
                       chunks[k][1] <= line /\ line <= chunks[k][2]

\* The number of newline bytes of src[0..b).
NewlinesBefore(b) == Cardinality({i \in 1..b : src[i] = NL})

(***************************************************************************)
(* C27: every chunk that by_tokens_in_token_range emits carries the line   *)
(* numbers counted from the start of the file: start_line is the number of *)
(* newline bytes of src[0..start_byte) and end_line that of                *)
(* src[0..end_byte).  The cursor is the start of the last emitted chunk,   *)
(* the chunks start in non-decreasing byte order, and point never slices   *)
(* backwards from the cursor.                                              *)
(***************************************************************************)
CursorLinesAreAbsolute ==
    /\ pc # "panic"
    /\ \A k \in 1..Len(chunks) :
          /\ chunks[k].start_line = NewlinesBefore(chunks[k].start_byte)
          /\ chunks[k].end_line = NewlinesBefore(chunks[k].end_byte)
    /\ \A k \in 1..(Len(chunks) - 1) :
          chunks[k].start_byte <= chunks[k + 1].start_byte
    /\ chunks # <<>> =>
          cursor = <<chunks[Len(chunks)].start_line,
                     chunks[Len(chunks)].start_byte>>

CursorLinesAreAbsoluteWitness ==
    /\ pc \in {"split_loop", "split_overlap", "done"}
    /\ Len(chunks) >= 2
    /\ chunks[1].start_byte > 0
    /\ chunks[1].start_line > 0
    /\ chunks[2].start_line > chunks[1].start_line
    /\ chunks[2].end_line > chunks[2].start_line

(***************************************************************************)
(* C28: for size >= 1 the chunks of by_lines_index_chunks are in strictly  *)
(* increasing byte order, the first starts at byte 0, each chunk ends      *)
(* where the next one starts, and no chunk has start_byte >= end_byte.     *)
(***************************************************************************)
LineChunksContiguous ==
    (pc = "done" /\ opt.fallback_lines >= 1) =>
        /\ out # <<>> => out[1].start_byte = 0
        /\ \A k \in 1..Len(out) : out[k].start_byte < out[k].end_byte
        /\ \A k \in 1..(Len(out) - 1) :
              /\ out[k].end_byte = out[k + 1].start_byte
              /\ out[k].start_byte < out[k + 1].start_byte

LineChunksContiguousWitness ==
    /\ pc = "done"
    /\ opt.fallback_lines = 1
    /\ Len(out) >= 2
    /\ src[1] = NL
    /\ \E i \in 2..(Len(src) - 1) : src[i] = NL /\ src[i + 1] = NL

\* The number of lines of the source, a trailing newline counted as the
\* start of one more (empty) line.
FileLines == Cardinality({i \in 1..Len(src) : src[i] = NL}) + 1

(***************************************************************************)
(* C29: in the whole-file fallback of chunk_source every emitted CodeChunk *)
(* has start_line <= end_line, and end_line is a 0-based inclusive line    *)
(* index of the file: end_line is less than the number of lines of the     *)
(* source.                                                                 *)
(***************************************************************************)
FallbackLinesInsideFile ==
    (ChunkSourceReturned /\ ClaimedScopePass = <<>>) =>
        \A k \in 1..Len(out) :
            /\ out[k].start_line <= out[k].end_line
            /\ out[k].end_line < FileLines

(***************************************************************************)
(* C30: while index_chunks splits an oversized top-level scope with byte   *)
(* range [s, e), every IndexChunk produced for the scope lies inside it:   *)
(* s <= start_byte and end_byte <= e.                                      *)
(***************************************************************************)
ScopeChunksInsideScope ==
    [][(pc \in {"split_loop", "split_overlap"} /\ ret = "scope") =>
          \A k \in 1..Len(chunks') :
              /\ TopScopes[scope_i + 1].start_byte <= chunks'[k].start_byte
              /\ chunks'[k].end_byte <= TopScopes[scope_i + 1].end_byte]_vars

====
